---- MODULE Spec2Model ----
(***************************************************************************)
(* Model of homebridge-atomberg-fan: the AtombergApi session manager and   *)
(* request wrappers (atombergApi.ts), the platform with its start-up       *)
(* handler, discovery pass and routing (platform.ts), the accessory        *)
(* handlers (platformAccessory.ts) and the broadcast listener and decoder  *)
(* (broadcastListener.ts).                                                 *)
(*                                                                         *)
(* Node runs every handler to completion on one thread, so each action     *)
(* below is one handler together with the promise reactions (microtasks)   *)
(* it triggers.  Time is not modelled: a live timer may fire at any step,  *)
(* and a request stays in flight until its response action is taken (the   *)
(* axios requests are made without a timeout).                             *)
(***************************************************************************)
EXTENDS Integers, Sequences, FiniteSets, TLC

VARIABLES
    config,          \* which of apiKey / refreshToken the platform config holds
    launch,          \* position of the didFinishLaunching callback
    startupResult,   \* how the start-up login ended: "none", "success", "failure"
    startupDiscovery,\* TRUE once the start-up callback has called discoverDevices
    api,             \* the AtombergApi instance and the runtime timers it created
    loginsInFlight,  \* login requests awaiting a response, by who started them
    lastLogin,       \* outcome of the login that completed last
    loginHistory,    \* failed logins before the first success, and whether one succeeded
    serverHealthy,   \* TRUE once the vendor answers every login with Success
    apiInFlight,     \* device-API requests awaiting a response, per operation
    apiInvoked,      \* device-API operations a caller invoked directly so far
    apiCompleted,    \* those of them whose promise has settled so far
    lastApi,         \* record of the device-API operation that settled last
    inbound,         \* the datagram waiting on the socket, if any
    lastDatagram,    \* the datagram the listener handled last
    parseCalled,     \* whether onMessage called parseMessage for it
    parsed,          \* what parseMessage returned: <<state>>, or <<>> for null
    parseFault,      \* TRUE when an exception left parseMessage for it
    stateChange,     \* the stateChange events onMessage emitted for it
    account,         \* the device ids that exist in this run (account, cache, network)
    accessories,     \* platform.accessories: ids of the restored cached accessories
    accessoryInstances, \* platform.accessoryInstances: id -> <<handler>>, <<>> if none
    service,         \* id -> Active and RotationSpeed of its accessory's Fanv2 service
    hostRegistered,  \* id -> registerPlatformAccessories calls made for it
    hostUnregistered,\* id -> unregisterPlatformAccessories calls made for it
    discovery,       \* position of the discoverDevices pass in progress
    lastPass,        \* what the pass that ended last did
    lastRefresh,     \* id -> the last refreshDeviceStatus call made on its handler
    commandsInFlight,\* id -> sendCommand requests of its handler awaiting a response
    commandsIssued,  \* HomeKit SET requests handled so far
    lastCommand,     \* the SET request handled last and how it ended
    failedCommands,  \* id -> sendCommand calls of its handler that were rejected
    unhandledRejection \* TRUE once a promise nobody awaits has been rejected

sessionVars == <<api, loginsInFlight, lastLogin, loginHistory, serverHealthy>>
platformVars == <<config, launch, startupResult, startupDiscovery>>
apiVars == <<apiInFlight, apiInvoked, apiCompleted, lastApi>>
listenerVars == <<inbound, lastDatagram, parseCalled, parsed, parseFault,
                  stateChange>>
registryVars == <<account, accessories, accessoryInstances, hostRegistered,
                  hostUnregistered, discovery, lastPass>>
consumerVars == <<service, lastRefresh>>
commandVars == <<commandsInFlight, commandsIssued, lastCommand, failedCommands,
                 unhandledRejection>>
vars == <<config, launch, startupResult, startupDiscovery, api, loginsInFlight,
          lastLogin, loginHistory, serverHealthy, apiInFlight, apiInvoked,
          apiCompleted, lastApi, inbound, lastDatagram, parseCalled, parsed,
          parseFault, stateChange, account, accessories, accessoryInstances,
          service, hostRegistered, hostUnregistered, discovery, lastPass,
          lastRefresh, commandsInFlight, commandsIssued, lastCommand,
          failedCommands, unhandledRejection>>

-----------------------------------------------------------------------------
(* Bounds of the model *)

\* device-API operations invoked in one run
MaxApiCalls == 2
\* refresh intervals that may be left running without a handle
MaxOrphans == 1
\* the login history counts up to this many failed attempts
MaxCount == 3
\* discoverDevices passes started in one run
MaxPasses == 2
\* HomeKit SET requests handled in one run
MaxCommands == 2

-----------------------------------------------------------------------------
(* Values *)

Undefined == "undefined"
Null == "null"
EmptyToken == ""
Tokens == {"token"}
ServerMessages == {"Device not found", Null}
HttpErrorCodes == {401, 403, 500}
Operations == {"getAllDevices", "getDeviceState", "sendCommand"}
Origins == {"startup", "timer"}

\* JavaScript truthiness of the values that occur here
Truthy(v) == v \notin {Undefined, Null, EmptyToken}

\* v ?? w
Coalesce(v, w) == IF v \in {Undefined, Null} THEN w ELSE v

\* the envelope object itself, where it is used as a rejection reason
EnvelopeObject == "[object envelope]"
NoAuthMessage == "No auth token available (login probably failed)."

\* What axios settles a request with: a 2xx response carrying the JSON
\* envelope, or an AxiosError (HTTP status outside 2xx, no response received,
\* request could not be set up).
Envelope(status, message) ==
    [kind |-> "response", status |-> status, message |-> message]
HttpError(code) == [kind |-> "http", code |-> code]
NoResponse == [kind |-> "norsp"]
SetupError == [kind |-> "setup"]

LoginFailureResponses ==
    {Envelope("Failure", m) : m \in ServerMessages}
        \cup {HttpError(c) : c \in HttpErrorCodes} \cup {NoResponse, SetupError}
LoginSuccessResponses == {Envelope("Success", t) : t \in Tokens}

ApiSuccessValue(op) ==
    CASE op = "getAllDevices" -> "devices_list"
      [] op = "getDeviceState" -> "device_state"
      [] op = "sendCommand" -> "true"
ApiResponses(op) ==
    {Envelope("Success", ApiSuccessValue(op))}
        \cup {Envelope("Failure", m) : m \in ServerMessages}
        \cup {HttpError(c) : c \in HttpErrorCodes} \cup {NoResponse, SetupError}

\* How the environment answered, for the record kept of each operation
Cause(r) ==
    CASE r.kind = "response" /\ r.status = "Success" -> "success"
      [] r.kind = "response" /\ r.status # "Success" -> "logical"
      [] r.kind = "http" /\ r.code = 401 -> "http401"
      [] r.kind = "http" /\ r.code # 401 -> "http"
      [] r.kind = "norsp" -> "noresponse"
      [] r.kind = "setup" -> "setup"

-----------------------------------------------------------------------------
(* AtombergApi: session manager *)

\* A live retry timeout is one setTimeout handle of _loginRetryTimeouts that
\* has neither fired nor been cleared; the array's other handles are inert
\* (clearTimeout on them does nothing), so only the live ones are counted.
\* loginRefreshInterval is "live" while the handle refers to a running
\* interval; orphanIntervals counts running intervals whose handle was
\* overwritten by a later setInterval.
NewApi ==
    [accessToken |-> EmptyToken,
     loginRefreshInterval |-> Undefined,
     loginRetryTimeouts |-> 0,
     orphanIntervals |-> 0]

getAccessToken == api.accessToken

ActiveRefreshTimers(a) ==
    a.orphanIntervals + (IF a.loginRefreshInterval = "live" THEN 1 ELSE 0)

LoginsTotal == loginsInFlight["startup"] + loginsInFlight["timer"]

\* (variant: a login() that clears the refresh interval only)
LoginClearsIntervalOnly(a) ==
    [a EXCEPT !.loginRefreshInterval = IF @ = "live" THEN "cleared" ELSE @]
\* login(), up to the request being issued: clearTimeout on every retry
\* handle, clearInterval on the refresh handle.
LoginClearTimers(a) ==
    [a EXCEPT !.loginRetryTimeouts = 0,
              !.loginRefreshInterval = IF @ = "live" THEN "cleared" ELSE @]

\* (variant: retryLogin() that only logs and schedules nothing)
RetryLoginNoTimer(a) == a
\* retryLogin(): logs, then pushes one setTimeout(login, LOGIN_RETRY_DELAY)
retryLogin(a) == [a EXCEPT !.loginRetryTimeouts = @ + 1]

\* (variant: a success handler that sets no interval)
RefreshIntervalNotSet(a) == a
\* setInterval(login, LOGIN_TOKEN_REFRESH_INTERVAL) assigned to the handle;
\* an interval the handle referred to keeps running.
SetRefreshInterval(a) ==
    [a EXCEPT !.orphanIntervals = IF a.loginRefreshInterval = "live" THEN @ + 1 ELSE @,
              !.loginRefreshInterval = "live"]

\* (variant: a .then handler that calls retryLogin on success as well)
LoginThenAlsoRetries(a, data) ==
    IF data.status # "Success"
    THEN retryLogin([a EXCEPT !.accessToken = EmptyToken])
    ELSE retryLogin(SetRefreshInterval([a EXCEPT !.accessToken = data.message]))
\* The .then handler of login(): a non-"Success" envelope clears the token
\* and calls retryLogin; "Success" stores the token and sets the interval.
LoginThen(a, data) ==
    IF data.status # "Success"
    THEN retryLogin([a EXCEPT !.accessToken = EmptyToken])
    ELSE SetRefreshInterval([a EXCEPT !.accessToken = data.message])

\* (variant: a .catch handler that calls retryLogin twice)
LoginCatchRetriesTwice(a, error) == retryLogin(retryLogin(a))
\* The .catch handler of login(): calls retryLogin and leaves the token as
\* it is.
LoginCatch(a, error) == retryLogin(a)

\* login(), from the response on
LoginSettle(a, r) ==
    IF r.kind = "response" THEN LoginThen(a, r) ELSE LoginCatch(a, r)

\* The promise login() returns is fulfilled with what its handlers return:
\* both return nothing.
LoginPromiseValue(r) == Undefined

Saturate(n) == IF n < MaxCount THEN n + 1 ELSE n

-----------------------------------------------------------------------------
(* AtombergApi: device operations *)

\* (variant: the guard left out)
NeverUnauthenticated(a) == FALSE
\* the guard `if (!this.accessToken)` of the three operations
Unauthenticated(a) == ~Truthy(a.accessToken)

Resolved(v) == [settled |-> "resolved", value |-> v]
Rejected(e) == [settled |-> "rejected", error |-> e]

\* the .then handler of an operation: a non-"Success" envelope is rejected
\* with response.data?.message ?? response.data
ApiThen(op, data) ==
    IF data.status # "Success"
    THEN Rejected([kind |-> "payload",
                   message |-> Coalesce(data.message, EnvelopeObject)])
    ELSE Resolved(ApiSuccessValue(op))

\* (variant: a handler that schedules a retry on 403 as well)
HandleErrorRetriesOn403(a, error) ==
    IF error.kind = "http" /\ error.code \in {401, 403}
    THEN [a EXCEPT !.loginRetryTimeouts = @ + 1]
    ELSE a
\* handleNetworkRequestError(): error.response is set only on an AxiosError
\* that carries an HTTP response; 401 pushes one retry-login timeout, every
\* other branch only logs.
handleNetworkRequestError(a, error) ==
    IF error.kind = "http"
    THEN IF error.code = 401
         THEN [a EXCEPT !.loginRetryTimeouts = @ + 1]
         ELSE a
    ELSE a

\* (variant: a .catch handler that returns nothing)
ApiCatchSwallows == Resolved(Undefined)
\* what the .catch handler of an operation returns: Promise.reject()
ApiCatchReturn == [settled |-> "rejected", value |-> Undefined]

\* The promise chain of an operation from the settling of the request on:
\* axios rejects with the AxiosError or fulfils with the response; .then
\* runs on fulfilment; .catch runs on a rejection from axios or from .then.
ApiChain(a, op, r) ==
    LET first == IF r.kind = "response" THEN ApiThen(op, r) ELSE Rejected(r)
    IN  IF first.settled = "rejected"
        THEN [api |-> handleNetworkRequestError(a, first.error),
              promise |-> ApiCatchReturn]
        ELSE [api |-> a, promise |-> first]

ApiRecord(op, cause, message, requested, promise) ==
    [op |-> op, cause |-> cause, message |-> message, requested |-> requested,
     settled |-> promise.settled, value |-> promise.value]

NoApiRecord ==
    [op |-> "none", cause |-> "none", message |-> Undefined, requested |-> FALSE,
     settled |-> "none", value |-> Undefined]

ApiRequestsInFlight ==
    apiInFlight["getAllDevices"] + apiInFlight["getDeviceState"]
        + apiInFlight["sendCommand"]

\* An operation up to its request being issued.  Without a token it returns
\* Promise.reject(message) at once; otherwise the request goes out.
ApiInvoke(op) ==
    /\ apiInvoked < MaxApiCalls
    /\ apiInvoked' = apiInvoked + 1
    /\ IF Unauthenticated(api)
       THEN /\ apiCompleted' = apiCompleted + 1
            /\ lastApi' = ApiRecord(op, "unauthenticated", Undefined, FALSE,
                                    [settled |-> "rejected", value |-> NoAuthMessage])
            /\ UNCHANGED apiInFlight
       ELSE /\ apiInFlight' = [apiInFlight EXCEPT ![op] = @ + 1]
            /\ UNCHANGED <<apiCompleted, lastApi>>
    /\ UNCHANGED <<sessionVars, platformVars, listenerVars, registryVars, consumerVars,
                   commandVars>>

getAllDevices == ApiInvoke("getAllDevices")
getDeviceState == ApiInvoke("getDeviceState")
sendCommand == ApiInvoke("sendCommand")

\* The request of an operation settles and its promise chain runs.
ApiResponse ==
    \E op \in Operations :
        /\ apiInFlight[op] > 0
        /\ \E r \in ApiResponses(op) :
             LET out == ApiChain(api, op, r)
             IN  /\ api' = out.api
                 /\ lastApi' = ApiRecord(op, Cause(r),
                                         IF r.kind = "response" THEN r.message
                                                                ELSE Undefined,
                                         TRUE, out.promise)
        /\ apiInFlight' = [apiInFlight EXCEPT ![op] = @ - 1]
        /\ apiCompleted' = apiCompleted + 1
        /\ UNCHANGED <<apiInvoked, loginsInFlight, lastLogin, loginHistory,
                       serverHealthy, platformVars, listenerVars, registryVars, consumerVars,
                   commandVars>>

-----------------------------------------------------------------------------
(* Session manager: login requests and timers *)

\* Timers may start a login while others are in flight only as long as the
\* number of refresh intervals this can leave running stays within the bound.
MayStartLogin ==
    LoginsTotal = 0 \/ api.orphanIntervals + LoginsTotal <= MaxOrphans

\* A retry timeout fires (it is spent) and runs login().
RetryTimerFires ==
    /\ api.loginRetryTimeouts > 0
    /\ MayStartLogin
    /\ api' = LoginClearTimers(api)
    /\ loginsInFlight' = [loginsInFlight EXCEPT !["timer"] = @ + 1]
    /\ UNCHANGED <<lastLogin, loginHistory, serverHealthy, platformVars,
                   apiVars, listenerVars, registryVars, consumerVars,
                   commandVars>>

\* The refresh interval the handle refers to fires and runs login(), which
\* clears it.
RefreshIntervalFires ==
    /\ api.loginRefreshInterval = "live"
    /\ MayStartLogin
    /\ api' = LoginClearTimers(api)
    /\ loginsInFlight' = [loginsInFlight EXCEPT !["timer"] = @ + 1]
    /\ UNCHANGED <<lastLogin, loginHistory, serverHealthy, platformVars,
                   apiVars, listenerVars, registryVars, consumerVars,
                   commandVars>>

\* A refresh interval without a handle fires and runs login(); nothing can
\* clear it, so it stays live.
OrphanIntervalFires ==
    /\ api.orphanIntervals > 0
    /\ MayStartLogin
    /\ api' = LoginClearTimers(api)
    /\ loginsInFlight' = [loginsInFlight EXCEPT !["timer"] = @ + 1]
    /\ UNCHANGED <<lastLogin, loginHistory, serverHealthy, platformVars,
                   apiVars, listenerVars, registryVars, consumerVars,
                   commandVars>>

LoginResponses ==
    IF serverHealthy THEN LoginSuccessResponses
    ELSE LoginSuccessResponses \cup LoginFailureResponses

\* The then-callback the platform attaches to the start-up login():
\* `if (!res) { log; return; }  this.discoverDevices();`
StartupThen(res) == Truthy(res)

\* A login request settles: login()'s own handlers run, and for the start-up
\* login the platform's callback runs right after them.
LoginResponse ==
    \E origin \in Origins :
        /\ loginsInFlight[origin] > 0
        /\ \E r \in LoginResponses :
             /\ api' = LoginSettle(api, r)
             /\ lastLogin' = Cause(r)
             /\ loginHistory' =
                  IF Cause(r) = "success"
                  THEN [loginHistory EXCEPT !.loggedIn = TRUE]
                  ELSE IF loginHistory.loggedIn THEN loginHistory
                  ELSE [loginHistory EXCEPT !.failures = Saturate(@)]
             /\ IF origin = "startup"
                THEN /\ launch' = "done"
                     /\ startupResult' =
                          IF Cause(r) = "success" THEN "success" ELSE "failure"
                     /\ startupDiscovery' = StartupThen(LoginPromiseValue(r))
                ELSE UNCHANGED <<launch, startupResult, startupDiscovery>>
        /\ loginsInFlight' = [loginsInFlight EXCEPT ![origin] = @ - 1]
        /\ UNCHANGED <<config, serverHealthy, apiVars, listenerVars, registryVars, consumerVars,
                   commandVars>>

\* From some point on the vendor answers every login with Success.
ServerRecovers ==
    /\ ~serverHealthy
    /\ serverHealthy' = TRUE
    /\ UNCHANGED <<api, loginsInFlight, lastLogin, loginHistory, platformVars,
                   apiVars, listenerVars, registryVars, consumerVars,
                   commandVars>>

-----------------------------------------------------------------------------
(* Platform: start-up *)

ConfigComplete == config.apiKey /\ config.refreshToken

\* (variant: a callback that tests apiKey only)
DidFinishLaunchingTestsApiKeyOnly ==
    /\ launch = "idle"
    /\ IF ~config.apiKey
       THEN /\ launch' = "aborted"
            /\ UNCHANGED <<api, loginsInFlight>>
       ELSE /\ launch' = "loggingIn"
            /\ api' = LoginClearTimers(api)
            /\ loginsInFlight' = [loginsInFlight EXCEPT !["startup"] = @ + 1]
    /\ UNCHANGED <<config, startupResult, startupDiscovery, lastLogin,
                   loginHistory, serverHealthy, apiVars, listenerVars, registryVars,
                   consumerVars, commandVars>>
\* The didFinishLaunching callback: aborts when apiKey or refreshToken is
\* missing, otherwise calls login() and attaches its callbacks.
DidFinishLaunching ==
    /\ launch = "idle"
    /\ IF ~config.apiKey \/ ~config.refreshToken
       THEN /\ launch' = "aborted"
            /\ UNCHANGED <<api, loginsInFlight>>
       ELSE /\ launch' = "loggingIn"
            /\ api' = LoginClearTimers(api)
            /\ loginsInFlight' = [loginsInFlight EXCEPT !["startup"] = @ + 1]
    /\ UNCHANGED <<config, startupResult, startupDiscovery, lastLogin,
                   loginHistory, serverHealthy, apiVars, listenerVars, registryVars, consumerVars,
                   commandVars>>

-----------------------------------------------------------------------------
(* BroadcastListener: decoder *)

\* A state code is kept as its 32-bit pattern, in two 16-bit halves: this is
\* what JavaScript's ToInt32 makes of the number before `&` is applied.
Word(hi, lo) == [hi |-> hi, lo |-> lo]

RECURSIVE BitAndNat(_, _, _)
BitAndNat(a, b, bits) ==
    IF bits = 0 THEN 0
    ELSE (a % 2) * (b % 2) + 2 * BitAndNat(a \div 2, b \div 2, bits - 1)

\* the signed 32-bit integer a bit pattern stands for
ToInt32(w) == (IF w.hi >= 32768 THEN w.hi - 65536 ELSE w.hi) * 65536 + w.lo

\* JavaScript's `mask & stateCode`: the result is a signed 32-bit integer
BitAnd(mask, code) ==
    ToInt32(Word(BitAndNat(mask.hi, code.hi, 16), BitAndNat(mask.lo, code.lo, 16)))

\* the masks of parseMessage
PowerMask == Word(0, 16)               \* 0x10
LedMaskWrong == Word(0, 64)            \* (variant: 0x40)
LedMask == Word(0, 32)                 \* 0x20
SleepMask == Word(0, 128)              \* 0x80
SpeedMask == Word(0, 7)                \* 0x07
TimerMask == Word(15, 0)               \* 0x0F0000
ElapsedMask == Word(65280, 0)          \* 0xFF000000
BrightnessMask == Word(0, 32512)       \* 0x7F00
CoolMask == Word(0, 8)                 \* 0x08
WarmMaskWrong == Word(0, 16384)        \* (variant: 0x4000)
WarmMask == Word(0, 32768)             \* 0x8000

\* parseMessage(), for a datagram whose text is the hex encoding of a JSON
\* object with device_id and state_string; stateCode is the first
\* comma-separated token of state_string.  The divisions are exact: each
\* masked value is a multiple of its divisor.  (x * 4) / 16777216 is computed
\* as (x / 16777216) * 4, which is the same number: x is a multiple of
\* 16777216 and JavaScript's arithmetic on it is exact.
DecodeState(deviceId, stateCode) ==
    LET power == BitAnd(PowerMask, stateCode) > 0
        led == BitAnd(LedMask, stateCode) > 0
        sleep == BitAnd(SleepMask, stateCode) > 0
        speed == BitAnd(SpeedMask, stateCode)
        fanTimer == BitAnd(TimerMask, stateCode) \div 65536
        fanTimerElapsedMins == (BitAnd(ElapsedMask, stateCode) \div 16777216) * 4
        brightness == BitAnd(BrightnessMask, stateCode) \div 256
        cool == BitAnd(CoolMask, stateCode) > 0
        warm == BitAnd(WarmMask, stateCode) > 0
    IN  [device_id |-> deviceId,
         is_online |-> TRUE,
         power |-> power,
         led |-> led,
         sleep_mode |-> sleep,
         last_recorded_speed |-> speed,
         timer_hours |-> fanTimer,
         timer_time_elapsed_mins |-> fanTimerElapsedMins,
         last_recorded_brightness |-> brightness,
         last_recorded_color |->
             IF cool THEN (IF warm THEN "Daylight" ELSE "Cool") ELSE "Warm"]

\* How a block of statements ends: with a value, or with an exception.
Returned(v) == [thrown |-> FALSE, value |-> v]
Thrown == [thrown |-> TRUE, value |-> <<>>]

\* The try block of parseMessage(), by the form of the datagram's text:
\*   "badhex"   non-hex characters before the end of the payload:
\*              Buffer.from(text, 'hex') stops at the first of them, the
\*              decoded text is cut short and JSON.parse throws;
\*   "hextail"  non-hex characters after a whole payload: Buffer.from drops
\*              them and the payload decodes as if they were absent;
\*   "notjson"  hex of a text that is not JSON: JSON.parse throws;
\*   "jsonnull" hex of `null`: reading null['state_string'] throws;
\*   "scalar"   hex of a JSON number, string, boolean or array:
\*              ['state_string'] is undefined and .split throws;
\*   "nostate"  hex of an object without state_string: .split throws;
\*   "noid"     hex of an object with state_string and no device_id: nothing
\*              throws, device_id is undefined;
\*   "state"    hex of an object with device_id and state_string.
ParseTry(d) ==
    IF d.form \in {"badhex", "notjson", "jsonnull", "scalar", "nostate"}
    THEN Thrown
    ELSE Returned(<<DecodeState(d.device_id, d.stateCode)>>)

\* the catch block of parseMessage(): logs and returns null
ParseCatchRethrows(r) == r
ParseCatch(r) == Returned(<<>>)

\* (variant: a parseMessage() that returns null for every datagram)
ParseMessageNeverDecodes(d) == Returned(<<>>)
\* parseMessage(): <<state>>, or <<>> for the null of the catch block
parseMessage(d) ==
    LET r == ParseTry(d) IN IF r.thrown THEN ParseCatch(r) ELSE r

-----------------------------------------------------------------------------
(* AtombergFanPlatformAccessory *)

Ids == {"A", "B", "C"}

\* the fan that broadcasts and that the user operates in the platform model
Operated == {"A"}

\* A device state as getDeviceState reports it, with the fields of the
\* decoder's states.
FetchedState(id, online, power, speed) ==
    [device_id |-> id, is_online |-> online, power |-> power, led |-> FALSE,
     sleep_mode |-> FALSE, last_recorded_speed |-> speed, timer_hours |-> 0,
     timer_time_elapsed_mins |-> 0, last_recorded_brightness |-> 0,
     last_recorded_color |-> "Warm"]

\* what the vendor's state list holds for a device: no entry, the device
\* offline with the values it recorded last, or the device online
StateKinds == {"none", "offline", "online"}
ReportedState(id, kind) ==
    CASE kind = "none" -> <<>>
      [] kind = "offline" -> <<FetchedState(id, FALSE, TRUE, 3)>>
      [] kind = "online" -> <<FetchedState(id, TRUE, TRUE, 6)>>

\* Active and RotationSpeed of a Fanv2 service: of one just created, and of
\* one restored from the host's cache with the values it was saved with
DefaultService == [Active |-> "INACTIVE", RotationSpeed |-> 0]
CachedService == [Active |-> "ACTIVE", RotationSpeed |-> 40]

\* (variant: the offline test left out)
RefreshIgnoresOnlineFlag(svc, deviceState) ==
    IF deviceState = <<>> THEN svc
    ELSE LET fanSpeed == IF deviceState[1].last_recorded_speed > 5 THEN 5
                         ELSE deviceState[1].last_recorded_speed
         IN  [Active |-> IF deviceState[1].power THEN "ACTIVE" ELSE "INACTIVE",
              RotationSpeed |-> fanSpeed * 20]
\* refreshDeviceStatus(): the service's values after the call.  deviceState
\* is <<state>>, or <<>> for undefined, on which reading is_online throws
\* inside the try block and the catch block only logs.  An offline state
\* returns before any update.
refreshDeviceStatus(svc, deviceState) ==
    IF deviceState = <<>> THEN svc
    ELSE IF ~deviceState[1].is_online THEN svc
    ELSE LET fanSpeed == IF deviceState[1].last_recorded_speed > 5 THEN 5
                         ELSE deviceState[1].last_recorded_speed
         IN  [Active |-> IF deviceState[1].power THEN "ACTIVE" ELSE "INACTIVE",
              RotationSpeed |-> fanSpeed * 20]

\* the record kept of a refreshDeviceStatus call: the state passed and the
\* service's values when it was called
Refresh(svc, deviceState) == <<[state |-> deviceState, before |-> svc]>>

\* The constructor: keeps deviceState as this.fanState and ends with
\* refreshDeviceStatus(this.fanState).
NewHandler(deviceState) == <<[fanState |-> deviceState]>>

\* (variant: a check that never throws)
ValidateAlwaysPasses(fanState) == "ok"
\* validateDeviceConnectionStatus(): throws HapStatusError when the stored
\* state is offline; reading is_online of an undefined fanState throws
\* TypeError.
validateDeviceConnectionStatus(fanState) ==
    IF fanState = <<>> THEN "TypeError"
    ELSE IF ~fanState[1].is_online THEN "SERVICE_COMMUNICATION_FAILURE"
    ELSE "ok"

\* (variant: a catch block that throws the error on)
SendDeviceUpdateCatchRethrows == TRUE
\* whether a rejection of sendCommand leaves sendDeviceUpdate(): its catch
\* block logs and returns
SendDeviceUpdateCatch == FALSE

\* sendDeviceUpdate() up to its await, called (not awaited) by a SET handler
\* of the handler of device d.  An exception of the second validation is
\* thrown outside the try block and rejects the promise nobody awaits.
\* Without a token sendCommand returns a rejected promise, which the await
\* throws into the catch block.
sendDeviceUpdate(d, fanState) ==
    IF validateDeviceConnectionStatus(fanState) # "ok"
    THEN /\ unhandledRejection' = TRUE
         /\ UNCHANGED <<api, apiInFlight, commandsInFlight, failedCommands>>
    ELSE IF Unauthenticated(api)
    THEN /\ failedCommands' = [failedCommands EXCEPT ![d] = @ + 1]
         /\ unhandledRejection' = (unhandledRejection \/ SendDeviceUpdateCatch)
         /\ UNCHANGED <<api, apiInFlight, commandsInFlight>>
    ELSE /\ apiInFlight' = [apiInFlight EXCEPT !["sendCommand"] = @ + 1]
         /\ commandsInFlight' = [commandsInFlight EXCEPT ![d] = @ + 1]
         /\ UNCHANGED <<api, failedCommands, unhandledRejection>>

Command(d, handler, result, sent) ==
    [device_id |-> d, handler |-> handler, result |-> result, sent |-> sent]
NoCommand == Command(Null, "none", "none", FALSE)

\* A SET handler from its validation on: `update` is the stored state after
\* the handler's assignment.
SetHandler(d, handler, update) ==
    LET fanState == accessoryInstances[d][1].fanState
        check == validateDeviceConnectionStatus(fanState)
    IN  /\ accessoryInstances[d] # <<>>
        /\ commandsIssued < MaxCommands
        /\ commandsIssued' = commandsIssued + 1
        /\ IF check # "ok"
           THEN /\ lastCommand' = Command(d, handler, check, FALSE)
                /\ UNCHANGED <<api, apiInFlight, accessoryInstances,
                               commandsInFlight, failedCommands,
                               unhandledRejection>>
           ELSE IF fanState = <<>>
           THEN /\ lastCommand' = Command(d, handler, "TypeError", FALSE)
                /\ UNCHANGED <<api, apiInFlight, accessoryInstances,
                               commandsInFlight, failedCommands,
                               unhandledRejection>>
           ELSE /\ accessoryInstances' =
                     [accessoryInstances EXCEPT ![d] =
                         <<[accessoryInstances[d][1] EXCEPT !.fanState = <<update>>]>>]
                /\ lastCommand' = Command(d, handler, "ok", TRUE)
                /\ sendDeviceUpdate(d, <<update>>)
        /\ UNCHANGED <<loginsInFlight, lastLogin, loginHistory, serverHealthy,
                       platformVars, apiInvoked, apiCompleted, lastApi,
                       listenerVars, account, accessories, hostRegistered,
                       hostUnregistered, discovery, lastPass, consumerVars>>

\* setActive(value): stores the value as fanState.power (kept here as its
\* truthiness) and sends {power, speed}.
setActive ==
    \E d \in Operated, value \in {"ACTIVE", "INACTIVE"} :
        /\ accessoryInstances[d] # <<>>
        /\ SetHandler(d, "setActive",
              IF accessoryInstances[d][1].fanState = <<>> THEN <<>>
              ELSE [accessoryInstances[d][1].fanState[1]
                        EXCEPT !.power = (value = "ACTIVE")])

\* setRotationSpeed(value): stores value / 20 as last_recorded_speed and
\* sends {speed}.  The characteristic's minStep is 20, so the division is
\* exact.
setRotationSpeed ==
    \E d \in Operated, value \in {20} :
        /\ accessoryInstances[d] # <<>>
        /\ SetHandler(d, "setRotationSpeed",
              IF accessoryInstances[d][1].fanState = <<>> THEN <<>>
              ELSE [accessoryInstances[d][1].fanState[1]
                        EXCEPT !.last_recorded_speed = value \div 20])

\* The sendCommand request of a handler settles; sendDeviceUpdate() resumes
\* after its await.
CommandResponse ==
    \E d \in Ids :
        /\ commandsInFlight[d] > 0
        /\ \E r \in ApiResponses("sendCommand") :
             LET out == ApiChain(api, "sendCommand", r)
             IN  /\ api' = out.api
                 /\ IF out.promise.settled = "rejected"
                    THEN /\ failedCommands' = [failedCommands EXCEPT ![d] = @ + 1]
                         /\ unhandledRejection' =
                              (unhandledRejection \/ SendDeviceUpdateCatch)
                    ELSE UNCHANGED <<failedCommands, unhandledRejection>>
        /\ commandsInFlight' = [commandsInFlight EXCEPT ![d] = @ - 1]
        /\ apiInFlight' = [apiInFlight EXCEPT !["sendCommand"] = @ - 1]
        /\ UNCHANGED <<loginsInFlight, lastLogin, loginHistory, serverHealthy,
                       platformVars, apiInvoked, apiCompleted, lastApi,
                       listenerVars, registryVars, consumerVars,
                       commandsIssued, lastCommand>>

-----------------------------------------------------------------------------
(* Platform: registry, discovery pass and routing *)

\* (variant: an event is dropped when the handler's stored state is offline)
HandleStateChangeIfStoredOnline(state) ==
    LET forwarded(d) ==
            /\ d = state.device_id
            /\ accessoryInstances[d] # <<>>
            /\ accessoryInstances[d][1].fanState # <<>>
            /\ accessoryInstances[d][1].fanState[1].is_online
    IN  [service |->
            [d \in Ids |-> IF forwarded(d)
                           THEN refreshDeviceStatus(service[d], <<state>>)
                           ELSE service[d]],
         lastRefresh |->
            [d \in Ids |-> IF forwarded(d)
                           THEN Refresh(service[d], <<state>>)
                           ELSE lastRefresh[d]]]
\* (variant: every handler is refreshed)
HandleStateChangeForAll(state) ==
    [service |->
        [d \in Ids |-> IF accessoryInstances[d] # <<>>
                       THEN refreshDeviceStatus(service[d], <<state>>)
                       ELSE service[d]],
     lastRefresh |->
        [d \in Ids |-> IF accessoryInstances[d] # <<>>
                       THEN Refresh(service[d], <<state>>)
                       ELSE lastRefresh[d]]]
\* handleStateChange(): accessoryInstances.get(state.device_id); when there
\* is a handler, its refreshDeviceStatus(state) is called.  Gives the
\* services and the refresh records after the call.
handleStateChange(state) ==
    [service |->
        [d \in Ids |-> IF d = state.device_id /\ accessoryInstances[d] # <<>>
                       THEN refreshDeviceStatus(service[d], <<state>>)
                       ELSE service[d]],
     lastRefresh |->
        [d \in Ids |-> IF d = state.device_id /\ accessoryInstances[d] # <<>>
                       THEN Refresh(service[d], <<state>>)
                       ELSE lastRefresh[d]]]

\* configureAccessory(): the host hands over a cached accessory, before
\* didFinishLaunching and so before any pass.
configureAccessory ==
    \E d \in account \ accessories :
        /\ discovery.pc = "idle" /\ discovery.passes = 0
        /\ accessories' = accessories \cup {d}
        /\ service' = [service EXCEPT ![d] = CachedService]
        /\ UNCHANGED <<sessionVars, platformVars, apiVars, listenerVars,
                       account, accessoryInstances, hostRegistered,
                       hostUnregistered, discovery, lastPass, lastRefresh,
                       commandVars>>

Pass(outcome, listed, R, L, added, updated, removed) ==
    [outcome |-> outcome, listed |-> listed, R |-> R, L |-> L,
     added |-> added, updated |-> updated, removed |-> removed]
NoPass == Pass("none", FALSE, {}, {}, {}, {}, {})

\* the catch block of discoverDevices(): logs
PassFailed == Pass("failed", FALSE, {}, {}, {}, {}, {})

\* this.accessories.find(accessory => accessory.UUID === uuid), the uuid
\* being generated from the device id
ExistingAccessory(d) == d \in accessories

\* (variant: every cached accessory counts as removed)
RemovedAlways(R, d) == TRUE
\* !devices.find(device => device.device_id === deviceId)
RemovedPlatformDevice(R, d) == d \notin R

\* discoverDevices() up to its first await.  Without a token getAllDevices
\* returns a rejected promise and the catch block ends the pass.
discoverDevices ==
    /\ discovery.pc = "idle"
    /\ discovery.passes < MaxPasses
    /\ IF Unauthenticated(api)
       THEN /\ discovery' = [discovery EXCEPT !.passes = @ + 1]
            /\ lastPass' = PassFailed
            /\ UNCHANGED apiInFlight
       ELSE /\ discovery' = [discovery EXCEPT !.pc = "devices", !.passes = @ + 1]
            /\ apiInFlight' = [apiInFlight EXCEPT !["getAllDevices"] = @ + 1]
            /\ UNCHANGED lastPass
    /\ UNCHANGED <<sessionVars, platformVars, apiInvoked, apiCompleted, lastApi,
                   listenerVars, account, accessories, accessoryInstances,
                   hostRegistered, hostUnregistered, consumerVars, commandVars>>

\* The loop over this.accessories that ends the try block, for the fetched
\* list R.
UnregisterRemoved(R) ==
    /\ hostUnregistered' =
         [d \in Ids |-> IF d \in accessories /\ RemovedPlatformDevice(R, d)
                        THEN hostUnregistered[d] + 1 ELSE hostUnregistered[d]]

\* discoverDevices() from the settling of getAllDevices to its second
\* await.  A rejection goes to the catch block.  A response without
\* devices_list (listed = FALSE) skips the registration; the loop over
\* this.accessories then calls devices.find on undefined, which throws as
\* soon as there is a cached accessory.
DevicesFetched ==
    /\ discovery.pc = "devices"
    /\ \E r \in ApiResponses("getAllDevices"), listed \in BOOLEAN,
          R \in SUBSET account :
         LET out == ApiChain(api, "getAllDevices", r)
             answered == [apiInFlight EXCEPT !["getAllDevices"] = @ - 1]
         IN  /\ api' = out.api
             /\ listed \/ R = {}
             /\ out.promise.settled = "rejected" => (listed /\ R = {})
             /\ IF out.promise.settled = "rejected"
                THEN /\ lastPass' = PassFailed
                     /\ discovery' = [discovery EXCEPT !.pc = "idle"]
                     /\ apiInFlight' = answered
                ELSE IF ~listed
                THEN /\ lastPass' = IF accessories = {}
                                    THEN Pass("completed", FALSE, {}, {}, {}, {}, {})
                                    ELSE PassFailed
                     /\ discovery' = [discovery EXCEPT !.pc = "idle"]
                     /\ apiInFlight' = answered
                ELSE IF Unauthenticated(out.api)
                THEN /\ lastPass' = PassFailed
                     /\ discovery' = [discovery EXCEPT !.pc = "idle"]
                     /\ apiInFlight' = answered
                ELSE /\ discovery' = [discovery EXCEPT !.pc = "states", !.devices = R]
                     /\ apiInFlight' = [answered EXCEPT !["getDeviceState"] = @ + 1]
                     /\ UNCHANGED lastPass
    /\ UNCHANGED <<loginsInFlight, lastLogin, loginHistory, serverHealthy,
                   platformVars, apiInvoked, apiCompleted, lastApi,
                   listenerVars, account, accessories, accessoryInstances,
                   hostRegistered, hostUnregistered, consumerVars, commandVars>>

\* what getDeviceState reports for the devices of R: for each a state, or
\* no entry (<<>>)
DeviceStateLists(R) ==
    {[d \in Ids |-> IF d \in R THEN ReportedState(d, kind[d]) ELSE <<>>] :
        kind \in [R -> StateKinds]}

\* The registration loop and the loop over this.accessories, for the device
\* list R and the state list S.  A device with a cached accessory gets a
\* handler on that accessory (updatePlatformAccessories); any other device
\* gets a new accessory, a handler on it and registerPlatformAccessories.
\* deviceStates.find gives undefined for a device S has no entry for.
Reconcile(R, S) ==
    /\ accessoryInstances' =
         [d \in Ids |-> IF d \in R THEN NewHandler(S[d]) ELSE accessoryInstances[d]]
    /\ service' =
         [d \in Ids |->
            IF d \in R
            THEN refreshDeviceStatus(
                    IF ExistingAccessory(d) THEN service[d] ELSE DefaultService, S[d])
            ELSE service[d]]
    /\ lastRefresh' =
         [d \in Ids |->
            IF d \in R
            THEN Refresh(IF ExistingAccessory(d) THEN service[d] ELSE DefaultService,
                         S[d])
            ELSE lastRefresh[d]]
    /\ hostRegistered' =
         [d \in Ids |-> IF d \in R /\ ~ExistingAccessory(d)
                        THEN hostRegistered[d] + 1 ELSE hostRegistered[d]]
    /\ UnregisterRemoved(R)
    /\ lastPass' =
         Pass("completed", TRUE, R, accessories,
              {d \in R : ~ExistingAccessory(d)},
              {d \in R : ExistingAccessory(d)},
              {d \in accessories : RemovedPlatformDevice(R, d)})

\* (variant: the loop over this.accessories runs after a failed state fetch
\* as well, as it would after the try block)
StatesFetchedThenAlwaysUnregisters ==
    /\ discovery.pc = "states"
    /\ apiInFlight' = [apiInFlight EXCEPT !["getDeviceState"] = @ - 1]
    /\ discovery' = [discovery EXCEPT !.pc = "idle", !.devices = {}]
    /\ \E r \in ApiResponses("getDeviceState"), listed \in BOOLEAN,
          S \in DeviceStateLists(discovery.devices) :
         LET out == ApiChain(api, "getDeviceState", r)
             R == discovery.devices
             NoStates == [d \in Ids |-> <<>>]
         IN  /\ api' = out.api
             /\ listed \/ S = NoStates
             /\ out.promise.settled = "rejected" => (listed /\ S = NoStates)
             /\ IF out.promise.settled = "rejected" \/ (~listed /\ R # {})
                THEN /\ lastPass' = PassFailed
                     /\ UnregisterRemoved(R)
                     /\ UNCHANGED <<accessoryInstances, hostRegistered,
                                    consumerVars>>
                ELSE Reconcile(R, S)
    /\ UNCHANGED <<loginsInFlight, lastLogin, loginHistory, serverHealthy,
                   platformVars, apiInvoked, apiCompleted, lastApi,
                   listenerVars, account, accessories, commandVars>>
\* discoverDevices() from the settling of getDeviceState to its end.  A
\* rejection goes to the catch block.  A response without device_state
\* (listed = FALSE) makes deviceStates.find throw for the first device, so
\* nothing is registered or unregistered unless the device list is empty.
StatesFetched ==
    /\ discovery.pc = "states"
    /\ apiInFlight' = [apiInFlight EXCEPT !["getDeviceState"] = @ - 1]
    /\ discovery' = [discovery EXCEPT !.pc = "idle", !.devices = {}]
    /\ \E r \in ApiResponses("getDeviceState"), listed \in BOOLEAN,
          S \in DeviceStateLists(discovery.devices) :
         LET out == ApiChain(api, "getDeviceState", r)
             R == discovery.devices
             NoStates == [d \in Ids |-> <<>>]
         IN  /\ api' = out.api
             /\ listed \/ S = NoStates
             /\ out.promise.settled = "rejected" => (listed /\ S = NoStates)
             /\ IF out.promise.settled = "rejected" \/ (~listed /\ R # {})
                THEN /\ lastPass' = PassFailed
                     /\ UNCHANGED <<accessoryInstances, hostRegistered,
                                    hostUnregistered, consumerVars>>
                ELSE Reconcile(R, S)
    /\ UNCHANGED <<loginsInFlight, lastLogin, loginHistory, serverHealthy,
                   platformVars, apiInvoked, apiCompleted, lastApi,
                   listenerVars, account, accessories, commandVars>>

-----------------------------------------------------------------------------
(* BroadcastListener: socket *)

\* the size a datagram must exceed to be decoded
MinBroadcastSize == 100

\* the test of onMessage(): remote.size > 100
SizeAtLeastMinimum(size) == size >= MinBroadcastSize
SizeAboveMinimum(size) == size > MinBroadcastSize

\* The datagrams that arrive.  `fields` records what the sender put into the
\* state code; the listener never reads it.
DeviceIds == {"fan1"}
Bit == {0, 1}
FieldChoices ==
    [power : BOOLEAN, led : BOOLEAN, sleep_mode : BOOLEAN,
     speed : {0, 3, 6, 7}, timer : {0, 4, 15}, elapsed : {0, 1, 128, 255},
     brightness : {0, 100, 127}, cool : BOOLEAN, warm : BOOLEAN,
     other : Bit]

B(flag) == IF flag THEN 1 ELSE 0

\* the state code holding the fields f; `other` sets the bits no field uses
\* (0x40 and 0xF00000)
StateCodeOf(f) ==
    Word(f.timer + 16 * 15 * f.other + 256 * f.elapsed,
         f.speed + 8 * B(f.cool) + 16 * B(f.power) + 32 * B(f.led)
            + 64 * f.other + 128 * B(f.sleep_mode) + 256 * f.brightness
            + 32768 * B(f.warm))

NoFields ==
    [power |-> FALSE, led |-> FALSE, sleep_mode |-> FALSE, speed |-> 0,
     timer |-> 0, elapsed |-> 0, brightness |-> 0, cool |-> FALSE,
     warm |-> FALSE, other |-> 0]

Datagram(size, form, id, f) ==
    [size |-> size, form |-> form, device_id |-> id, fields |-> f,
     stateCode |-> StateCodeOf(f)]

NoDatagram == Datagram(0, "none", Null, NoFields)

DatagramSizes == {MinBroadcastSize, MinBroadcastSize + 1}

MalformedForms == {"badhex", "notjson", "jsonnull", "scalar", "nostate"}

Datagrams ==
    {Datagram(n, "state", id, f) :
        n \in DatagramSizes, id \in DeviceIds, f \in FieldChoices}
    \cup {Datagram(n, form, Null, NoFields) :
            n \in DatagramSizes, form \in MalformedForms}
    \cup {Datagram(n, "hextail", id, NoFields) :
            n \in DatagramSizes, id \in DeviceIds}
    \cup {Datagram(n, "noid", Undefined, NoFields) : n \in DatagramSizes}

\* onMessage(): datagrams of at most MinBroadcastSize bytes are ignored; the
\* others are parsed, and a non-null result is emitted as stateChange, on
\* which the platform's subscriber runs handleStateChange before emit
\* returns.  An exception that leaves parseMessage is caught and logged by
\* onMessage.
onMessage(d) ==
    /\ lastDatagram' = d
    /\ IF SizeAboveMinimum(d.size)
       THEN LET res == parseMessage(d)
            IN  /\ parseCalled' = TRUE
                /\ parsed' = res.value
                /\ parseFault' = res.thrown
                /\ IF ~res.thrown /\ res.value # <<>>
                   THEN /\ stateChange' = res.value
                        /\ service' = handleStateChange(res.value[1]).service
                        /\ lastRefresh' = handleStateChange(res.value[1]).lastRefresh
                   ELSE /\ stateChange' = <<>>
                        /\ UNCHANGED consumerVars
       ELSE /\ parseCalled' = FALSE
            /\ parsed' = <<>>
            /\ parseFault' = FALSE
            /\ stateChange' = <<>>
            /\ UNCHANGED consumerVars
    /\ UNCHANGED <<sessionVars, platformVars, apiVars, registryVars, commandVars>>

\* The socket delivers the waiting datagram to onMessage.
MessageArrives ==
    /\ inbound # NoDatagram
    /\ onMessage(inbound)
    /\ inbound' = NoDatagram

\* The broadcasts of the platform model: a well-formed datagram above the
\* minimum size (power on, speed bits 7) from the fan that is operated,
\* which may or may not have a handler when it arrives.
PlatformFields == {[NoFields EXCEPT !.power = TRUE, !.speed = 7]}
PlatformDatagrams ==
    {Datagram(MinBroadcastSize + 1, "state", id, f) :
        id \in Operated, f \in PlatformFields}

\* A device broadcasts its state.
DatagramSent ==
    /\ inbound = NoDatagram
    /\ inbound' \in PlatformDatagrams
    /\ UNCHANGED <<sessionVars, platformVars, apiVars, lastDatagram, parseCalled,
                   parsed, parseFault, stateChange, registryVars, consumerVars,
                   commandVars>>

-----------------------------------------------------------------------------
(* Specification *)

\* The registry of a platform just constructed.
NoRegistry ==
    /\ accessories = {}
    /\ accessoryInstances = [d \in Ids |-> <<>>]
    /\ service = [d \in Ids |-> DefaultService]
    /\ hostRegistered = [d \in Ids |-> 0]
    /\ hostUnregistered = [d \in Ids |-> 0]
    /\ discovery = [pc |-> "idle", devices |-> {}, passes |-> 0]
    /\ lastPass = NoPass
    /\ lastRefresh = [d \in Ids |-> <<>>]
    /\ commandsInFlight = [d \in Ids |-> 0]
    /\ commandsIssued = 0
    /\ lastCommand = NoCommand
    /\ failedCommands = [d \in Ids |-> 0]
    /\ unhandledRejection = FALSE

IdleListener ==
    /\ inbound = NoDatagram
    /\ lastDatagram = NoDatagram
    /\ parseCalled = FALSE
    /\ parsed = <<>>
    /\ parseFault = FALSE
    /\ stateChange = <<>>

NotLaunched ==
    /\ launch = "idle"
    /\ startupResult = "none"
    /\ startupDiscovery = FALSE
    /\ api = NewApi
    /\ loginsInFlight = [o \in Origins |-> 0]
    /\ lastLogin = "none"
    /\ loginHistory = [failures |-> 0, loggedIn |-> FALSE]
    /\ serverHealthy = FALSE
    /\ apiInFlight = [op \in Operations |-> 0]
    /\ apiInvoked = 0
    /\ apiCompleted = 0
    /\ lastApi = NoApiRecord

Init ==
    /\ config \in [apiKey : BOOLEAN, refreshToken : BOOLEAN]
    /\ NotLaunched
    /\ IdleListener
    /\ account = {}
    /\ NoRegistry

Next ==
    \/ DidFinishLaunching
    \/ LoginResponse
    \/ RetryTimerFires
    \/ RefreshIntervalFires
    \/ OrphanIntervalFires
    \/ ServerRecovers
    \/ getAllDevices
    \/ getDeviceState
    \/ sendCommand
    \/ ApiResponse

Spec == Init /\ [][Next]_vars

\* Timers that are due fire, requests in flight are answered, and the host
\* delivers didFinishLaunching.
LiveSpec ==
    /\ Spec
    /\ WF_vars(DidFinishLaunching)
    /\ WF_vars(LoginResponse)
    /\ WF_vars(RetryTimerFires)

\* The listener alone, handed any one datagram of Datagrams, before the
\* platform is launched.
ListenerInit ==
    /\ config = [apiKey |-> TRUE, refreshToken |-> TRUE]
    /\ NotLaunched
    /\ inbound \in Datagrams
    /\ lastDatagram = NoDatagram
    /\ parseCalled = FALSE
    /\ parsed = <<>>
    /\ parseFault = FALSE
    /\ stateChange = <<>>
    /\ account = {}
    /\ NoRegistry

ListenerNext == MessageArrives

ListenerSpec == ListenerInit /\ [][ListenerNext]_vars

\* The state the start-up login leaves when it is answered Success.
LoggedIn ==
    /\ launch = "done"
    /\ startupResult = "success"
    /\ startupDiscovery = StartupThen(LoginPromiseValue(Envelope("Success", "token")))
    /\ api = LoginSettle(NewApi, Envelope("Success", "token"))
    /\ loginsInFlight = [o \in Origins |-> 0]
    /\ lastLogin = "success"
    /\ loginHistory = [failures |-> 0, loggedIn |-> TRUE]
    /\ serverHealthy = FALSE
    /\ apiInFlight = [op \in Operations |-> 0]
    /\ apiInvoked = 0
    /\ apiCompleted = 0
    /\ lastApi = NoApiRecord

\* The discovery pass alone, run on a platform whose login has or has not
\* succeeded, over an account and a cache of up to three devices.
ReconcileInit ==
    /\ config = [apiKey |-> TRUE, refreshToken |-> TRUE]
    /\ NotLaunched \/ LoggedIn
    /\ IdleListener
    /\ account = Ids
    /\ NoRegistry

ReconcileNext ==
    \/ configureAccessory
    \/ discoverDevices
    \/ DevicesFetched
    \/ StatesFetched

ReconcileSpec == ReconcileInit /\ [][ReconcileNext]_vars

\* The platform with its accessories: the pass of the start-up callback,
\* broadcasts and HomeKit SET requests, over an account and a cache of up to
\* two devices.
PlatformInit ==
    /\ config = [apiKey |-> TRUE, refreshToken |-> TRUE]
    /\ NotLaunched \/ LoggedIn
    /\ IdleListener
    /\ account = {"A", "B"}
    /\ NoRegistry

\* discoverDevices(), called as the start-up callback calls it: once
discoverDevicesAtStartup ==
    /\ discovery.passes = 0
    /\ discoverDevices

PlatformNext ==
    \/ configureAccessory
    \/ discoverDevicesAtStartup
    \/ DevicesFetched
    \/ StatesFetched
    \/ DatagramSent
    \/ MessageArrives
    \/ setActive
    \/ setRotationSpeed
    \/ CommandResponse

PlatformSpec == PlatformInit /\ [][PlatformNext]_vars

-----------------------------------------------------------------------------
(* Properties of the session manager *)

\* A login request has settled in this step.
LoginCompletes == LoginsTotal' = LoginsTotal - 1

\* A device operation has settled in this step.
ApiCompletes == apiCompleted' = apiCompleted + 1

\* C1: in every reachable state at most one refresh timer is active, also
\* when several login requests are in flight together and each succeeds.
AtMostOneRefreshTimer == ActiveRefreshTimers(api) <= 1

\* C2: whenever a login attempt completes as a failure (logical failure,
\* HTTP error, no response, request error), the credential is empty
\* afterwards, also when an earlier login had stored one.
FailedLoginClearsCredential ==
    [][(LoginCompletes /\ lastLogin' # "success") => getAccessToken' = EmptyToken]_vars

\* C3: once the start-up login has completed successfully and its callback
\* has run, discoverDevices has been called.
StartupLoginDiscovers ==
    (launch = "done" /\ startupResult = "success") => startupDiscovery

\* C4: starting from an empty credential, the credential stays empty as long
\* as every completed login failed; when the first login succeeds the
\* credential becomes non-empty, exactly one refresh timer is active and no
\* retry timer is pending.
FirstSuccessAfterFailures ==
    /\ [](~loginHistory.loggedIn => getAccessToken = EmptyToken)
    /\ [][(~loginHistory.loggedIn /\ loginHistory'.loggedIn) =>
            /\ getAccessToken' # EmptyToken
            /\ ActiveRefreshTimers(api') = 1
            /\ api'.loginRetryTimeouts = 0]_vars

FirstSuccessAfterTwoFailures ==
    /\ loginHistory = [failures |-> 2, loggedIn |-> TRUE]
    /\ lastLogin = "success"
    /\ getAccessToken # EmptyToken
    /\ ActiveRefreshTimers(api) = 1
    /\ api.loginRetryTimeouts = 0

\* C5: with a complete configuration, once the vendor answers every login
\* with Success the credential eventually becomes non-empty, however many
\* logins failed before (timers fire and requests are answered).
RetriedUntilLoggedIn ==
    (serverHealthy /\ ConfigComplete) ~> (getAccessToken # EmptyToken)

LoggedInAfterRecovery ==
    /\ serverHealthy
    /\ loginHistory.failures >= 2
    /\ lastLogin = "success"
    /\ getAccessToken # EmptyToken

-----------------------------------------------------------------------------
(* Properties of the device operations *)

\* C6: an operation invoked while the credential is empty is rejected in the
\* same step with the unauthenticated error, and no request is issued.
UnauthenticatedRejectsAtOnce ==
    [][(apiInvoked' = apiInvoked + 1 /\ getAccessToken = EmptyToken) =>
            /\ ApiCompletes
            /\ lastApi'.settled = "rejected"
            /\ lastApi'.value = NoAuthMessage
            /\ ~lastApi'.requested
            /\ apiInFlight' = apiInFlight]_vars

UnauthenticatedCommandRejected ==
    /\ lastApi.op = "sendCommand"
    /\ lastApi.cause = "unauthenticated"
    /\ lastApi.settled = "rejected"
    /\ ApiRequestsInFlight = 0
    /\ getAccessToken = EmptyToken

\* C7: an operation answered by a 2xx response whose status is not "Success"
\* rejects with the message the server reported.
LogicalFailureCarriesMessage ==
    (lastApi.cause = "logical" /\ lastApi.message # Null) =>
        (lastApi.settled = "rejected" /\ lastApi.value = lastApi.message)

\* C8: every failure of an operation (no credential, transport failure, HTTP
\* error status, logical failure) ends with its promise rejected.
EveryFailureRejects ==
    lastApi.cause \notin {"none", "success"} => lastApi.settled = "rejected"

LogicalFailureRejected ==
    /\ lastApi.cause = "logical"
    /\ lastApi.requested
    /\ lastApi.settled = "rejected"

-----------------------------------------------------------------------------
(* Properties of the decoder *)

Decoded == parsed # <<>>

\* C10: a successful decode of state code c yields power = (c & 0x10 # 0),
\* led = (c & 0x20 # 0), sleep_mode = (c & 0x80 # 0), speed = c & 0x07,
\* timer_hours = (c & 0x0F0000) >> 16, brightness = (c & 0x7F00) >> 8 and
\* is_online = TRUE, so that it returns the flags and fields the code was
\* built from.
DecodeReturnsFields ==
    Decoded =>
        LET st == parsed[1]
            c == lastDatagram.stateCode
            f == lastDatagram.fields
        IN  /\ st.is_online = TRUE
            /\ st.power = ((c.lo \div 16) % 2 = 1)
            /\ st.led = ((c.lo \div 32) % 2 = 1)
            /\ st.sleep_mode = ((c.lo \div 128) % 2 = 1)
            /\ st.last_recorded_speed = c.lo % 8
            /\ st.timer_hours = c.hi % 16
            /\ st.last_recorded_brightness = (c.lo \div 256) % 128
            /\ st.power = f.power
            /\ st.led = f.led
            /\ st.sleep_mode = f.sleep_mode
            /\ st.last_recorded_speed = f.speed
            /\ st.timer_hours = f.timer
            /\ st.last_recorded_brightness = f.brightness

DecodedAllFieldsSet ==
    /\ Decoded
    /\ lastDatagram.fields.power /\ lastDatagram.fields.led
    /\ lastDatagram.fields.sleep_mode
    /\ lastDatagram.fields.speed = 6
    /\ lastDatagram.fields.timer = 15
    /\ lastDatagram.fields.brightness = 100
    /\ lastDatagram.fields.elapsed = 255
    /\ lastDatagram.fields.other = 1
    /\ parsed[1].power /\ parsed[1].last_recorded_speed = 6

\* C11: for every state code c, also with bit 31 set, the decoded
\* timer_time_elapsed_mins is ((c >> 24) & 0xFF) * 4, between 0 and 1020 and
\* never negative.
ElapsedMinutesFromTopByte ==
    Decoded =>
        LET mins == parsed[1].timer_time_elapsed_mins
            c == lastDatagram.stateCode
        IN  /\ mins = (c.hi \div 256) * 4
            /\ mins = lastDatagram.fields.elapsed * 4
            /\ mins >= 0
            /\ mins <= 1020

\* C12: the decoded colour is "Warm" when bit 0x08 is clear, whatever bit
\* 0x8000 is, "Cool" when bit 0x08 is set and bit 0x8000 is clear, and
\* "Daylight" when both are set.
ColourFromCoolAndWarmBits ==
    Decoded =>
        LET c == lastDatagram.stateCode
            bit08 == (c.lo \div 8) % 2 = 1
            bit8000 == (c.lo \div 32768) % 2 = 1
        IN  /\ bit08 = lastDatagram.fields.cool
            /\ bit8000 = lastDatagram.fields.warm
            /\ parsed[1].last_recorded_color =
                  IF ~bit08 THEN "Warm"
                  ELSE IF ~bit8000 THEN "Cool" ELSE "Daylight"

DecodedDaylight ==
    /\ Decoded
    /\ lastDatagram.fields.cool /\ lastDatagram.fields.warm
    /\ lastDatagram.fields.brightness = 0
    /\ parsed[1].last_recorded_color = "Daylight"

\* C13: every state the decoder returns has a speed between 0 and 6,
\* whatever the state code.
DecodedSpeedAtMostSix ==
    Decoded =>
        /\ parsed[1].last_recorded_speed >= 0
        /\ parsed[1].last_recorded_speed <= 6

Handled == lastDatagram # NoDatagram

\* C14: decoding is total: for every datagram (bad hex, text that is not
\* JSON, a payload that is not an object, a valid payload) parseMessage
\* returns a state or null, and no exception leaves it.
DecodingIsTotal ==
    (Handled /\ parseCalled) =>
        /\ ~parseFault
        /\ \/ parsed = <<>>
           \/ Len(parsed) = 1 /\ parsed[1].is_online
        /\ lastDatagram.form \in MalformedForms => parsed = <<>>

NonObjectPayloadDecodesToNull ==
    /\ Handled /\ parseCalled
    /\ lastDatagram.form = "jsonnull"
    /\ parsed = <<>>
    /\ ~parseFault

\* C15: a datagram of at most 100 bytes is never handed to parseMessage and
\* produces no stateChange event.
SmallDatagramIgnored ==
    (Handled /\ lastDatagram.size <= 100) =>
        /\ ~parseCalled
        /\ stateChange = <<>>

ValidDatagramOfMinimumSizeIgnored ==
    /\ Handled
    /\ lastDatagram.size = 100
    /\ lastDatagram.form = "state"
    /\ ~parseCalled
    /\ stateChange = <<>>

-----------------------------------------------------------------------------
(* Properties of the platform *)

\* C16: a pass whose two fetches succeed, with remote inventory R and cached
\* set L, registers, updates and unregisters pairwise disjoint sets of
\* devices with added \cup updated = R and removed = L \ R; R = {A, B} and
\* L = {B, C} give added = {A}, updated = {B}, removed = {C}.
PassPartitionsDevices ==
    (lastPass.outcome = "completed" /\ lastPass.listed) =>
        /\ lastPass.added \cap lastPass.updated = {}
        /\ lastPass.added \cap lastPass.removed = {}
        /\ lastPass.updated \cap lastPass.removed = {}
        /\ lastPass.added \cup lastPass.updated = lastPass.R
        /\ lastPass.removed = lastPass.L \ lastPass.R
        /\ (lastPass.R = {"A", "B"} /\ lastPass.L = {"B", "C"}) =>
              /\ lastPass.added = {"A"}
              /\ lastPass.updated = {"B"}
              /\ lastPass.removed = {"C"}

PassAddsUpdatesRemoves ==
    /\ lastPass = Pass("completed", TRUE, {"A", "B"}, {"B", "C"},
                       {"A"}, {"B"}, {"C"})
    /\ discovery.passes = 1
    /\ hostRegistered = [d \in Ids |-> IF d = "A" THEN 1 ELSE 0]
    /\ hostUnregistered = [d \in Ids |-> IF d = "C" THEN 1 ELSE 0]
    /\ accessoryInstances["A"] # <<>> /\ accessoryInstances["B"] # <<>>

\* The listener has handled the waiting datagram in this step.
DatagramHandled == inbound # NoDatagram /\ inbound' = NoDatagram

\* C17: a state-change event for a device that has a registry entry is
\* passed to that device's handler and to no other; an event for a device
\* without an entry is dropped and leaves the registry and every handler
\* and service unchanged.
RoutedToOwnConsumerOnly ==
    [][(DatagramHandled /\ stateChange' # <<>>) =>
          LET id == stateChange'[1].device_id
          IN  IF id \in Ids /\ accessoryInstances[id] # <<>>
              THEN /\ lastRefresh'[id] # <<>>
                   /\ lastRefresh'[id][1].state = stateChange'
                   /\ \A d \in Ids \ {id} :
                         /\ service'[d] = service[d]
                         /\ lastRefresh'[d] = lastRefresh[d]
                   /\ accessoryInstances' = accessoryInstances
              ELSE /\ accessoryInstances' = accessoryInstances
                   /\ service' = service
                   /\ lastRefresh' = lastRefresh]_vars

EventReachedOnlyItsConsumer ==
    /\ stateChange # <<>>
    /\ stateChange[1].device_id = "A"
    /\ accessoryInstances["A"] # <<>> /\ accessoryInstances["B"] # <<>>
    /\ lastRefresh["A"] # <<>> /\ lastRefresh["A"][1].state = stateChange
    /\ lastRefresh["B"] # <<>> /\ lastRefresh["B"][1].state # stateChange
    /\ service["A"] = [Active |-> "ACTIVE", RotationSpeed |-> 100]
    /\ service["B"] = DefaultService

\* C18: a state with is_online = FALSE passed to a handler, by a pass or by
\* routing, leaves the Active and RotationSpeed values of its service as
\* they were.
OfflineUpdateKeepsVisibleValues ==
    \A d \in Ids :
        (/\ lastRefresh[d] # <<>>
         /\ lastRefresh[d][1].state # <<>>
         /\ ~lastRefresh[d][1].state[1].is_online) =>
            service[d] = lastRefresh[d][1].before

OfflineUpdateOfCachedAccessory ==
    /\ "A" \in accessories
    /\ lastRefresh["A"] # <<>>
    /\ lastRefresh["A"][1].state = <<FetchedState("A", FALSE, TRUE, 3)>>
    /\ lastRefresh["A"][1].before = CachedService
    /\ service["A"] = CachedService

\* A SET request for device d has been handled in this step.
CommandHandled(d) ==
    commandsIssued' = commandsIssued + 1 /\ lastCommand'.device_id = d

StoredState(d) == accessoryInstances[d][1].fanState

\* C19: a setActive or setRotationSpeed request for a device whose stored
\* state has is_online = FALSE is rejected with the communication failure,
\* and no sendCommand request is issued for it.
OfflineCommandRejected ==
    [][\A d \in Ids :
          (/\ CommandHandled(d)
           /\ StoredState(d) # <<>>
           /\ ~StoredState(d)[1].is_online) =>
              /\ lastCommand'.result = "SERVICE_COMMUNICATION_FAILURE"
              /\ ~lastCommand'.sent
              /\ apiInFlight' = apiInFlight
              /\ commandsInFlight' = commandsInFlight
              /\ failedCommands' = failedCommands]_vars

OfflineSpeedCommandRejected ==
    /\ lastCommand.handler = "setRotationSpeed"
    /\ lastCommand.result = "SERVICE_COMMUNICATION_FAILURE"
    /\ getAccessToken # EmptyToken
    /\ ApiRequestsInFlight = 0
    /\ ~accessoryInstances[lastCommand.device_id][1].fanState[1].is_online

\* C20: a rejected sendCommand removes no registry entry, unregisters no
\* device and leaves no rejection unhandled; a later SET request for the
\* same device, its stored state being online, calls sendCommand again.
FailedCommandIsContained ==
    /\ [][\A d \in Ids :
            failedCommands'[d] = failedCommands[d] + 1 =>
                /\ \A e \in Ids :
                      accessoryInstances[e] # <<>> => accessoryInstances'[e] # <<>>
                /\ hostUnregistered' = hostUnregistered
                /\ ~unhandledRejection']_vars
    /\ [][\A d \in Ids :
            (/\ CommandHandled(d)
             /\ failedCommands[d] > 0
             /\ StoredState(d) # <<>>
             /\ StoredState(d)[1].is_online) =>
                /\ lastCommand'.result = "ok"
                /\ lastCommand'.sent
                /\ \/ commandsInFlight'[d] = commandsInFlight[d] + 1
                   \/ (getAccessToken = EmptyToken
                         /\ failedCommands'[d] = failedCommands[d] + 1)]_vars

CommandSentAfterFailedCommand ==
    /\ failedCommands["A"] = 1
    /\ lastCommand.device_id = "A"
    /\ lastCommand.sent
    /\ commandsInFlight["A"] = 1
    /\ apiInFlight["sendCommand"] = 1
    /\ accessoryInstances["A"] # <<>>
    /\ hostUnregistered["A"] = 0
    /\ ~unhandledRejection

-----------------------------------------------------------------------------
(* Properties of the session timers *)

\* A login has been started in this step: login() ran up to its request.
LoginStarts == LoginsTotal' = LoginsTotal + 1

\* C21: in every step that starts a login, the retry timers scheduled
\* before it and the refresh timer the handle refers to are cancelled by the
\* time the request is issued: none of them is left to fire afterwards.
TimersCancelledAtLoginStart ==
    [][LoginStarts =>
          /\ api'.loginRetryTimeouts = 0
          /\ api'.loginRefreshInterval # "live"]_vars

RetryLoginCancelledTimers ==
    /\ loginsInFlight["timer"] = 1
    /\ lastLogin = "success"
    /\ lastApi.cause = "http401"
    /\ api.loginRetryTimeouts = 0
    /\ api.loginRefreshInterval = "cleared"

\* C22: a login that completes schedules exactly one timer: a failed one
\* one retry timer and no refresh timer, a successful one one refresh timer
\* and no retry timer.
CompletedLoginSchedulesOneTimer ==
    [][LoginCompletes =>
          IF lastLogin' = "success"
          THEN /\ ActiveRefreshTimers(api') = ActiveRefreshTimers(api) + 1
               /\ api'.loginRetryTimeouts = api.loginRetryTimeouts
          ELSE /\ api'.loginRetryTimeouts = api.loginRetryTimeouts + 1
               /\ ActiveRefreshTimers(api') = ActiveRefreshTimers(api)]_vars

FailedRefreshLeftOneRetryTimer ==
    /\ loginHistory.loggedIn
    /\ lastLogin = "noresponse"
    /\ LoginsTotal = 0
    /\ api.loginRetryTimeouts = 1
    /\ ActiveRefreshTimers(api) = 0

-----------------------------------------------------------------------------
(* Properties of the listener *)

\* the forms of datagram whose text the try block of parseMessage decodes
DecodableForms == {"state", "hextail", "noid"}

\* C23: a datagram above the size filter is handed to parseMessage and
\* consumed; when the decode succeeds exactly one stateChange event is
\* emitted and it carries the decoded state; when it fails no event is
\* emitted and the datagram is not kept for another attempt.
DecodedOnceEmittedOnce ==
    (Handled /\ lastDatagram.size > MinBroadcastSize) =>
        /\ parseCalled
        /\ inbound = NoDatagram
        /\ lastDatagram.form \in DecodableForms =>
              /\ Len(stateChange) = 1
              /\ stateChange = parsed
              /\ stateChange[1] =
                    DecodeState(lastDatagram.device_id, lastDatagram.stateCode)
        /\ lastDatagram.form \in MalformedForms =>
              /\ parsed = <<>>
              /\ stateChange = <<>>

DecodedStateEmittedOnce ==
    /\ Handled
    /\ lastDatagram.size = MinBroadcastSize + 1
    /\ lastDatagram.form = "state"
    /\ lastDatagram.fields.speed = 3
    /\ Len(stateChange) = 1
    /\ stateChange[1].last_recorded_speed = 3
    /\ stateChange[1].device_id = "fan1"
    /\ inbound = NoDatagram

\* C24: a datagram above the size filter whose payload is an object without
\* device_id or without state_string decodes to null, and no stateChange
\* event is emitted for it.
MissingFieldFailsDecode ==
    (Handled /\ parseCalled /\ lastDatagram.form \in {"nostate", "noid"}) =>
        /\ parsed = <<>>
        /\ stateChange = <<>>

-----------------------------------------------------------------------------
(* Properties of the registry over passes *)

\* A pass that ran both of its loops has ended and none is in progress.
PassCompleted ==
    discovery.pc = "idle" /\ lastPass.outcome = "completed" /\ lastPass.listed

\* a broadcast state of device d (power on, speed 0)
BroadcastOf(d) == DecodeState(d, Word(0, 16))

\* C25: after a pass that found device d absent from the fetched device
\* list, d has no entry in accessoryInstances, and a stateChange event for d
\* reaches no handler.
RemovedDeviceHasNoEntry ==
    PassCompleted =>
        \A d \in Ids \ lastPass.R :
            /\ accessoryInstances[d] = <<>>
            /\ handleStateChange(BroadcastOf(d)).lastRefresh[d] = lastRefresh[d]

\* C26: a handler built by a pass for a device the state list has no entry
\* for holds an offline state (is_online = FALSE), never a missing one, and
\* no SET request fails on a missing state.
NoEntryGivesOfflinePlaceholder ==
    /\ \A d \in Ids :
          accessoryInstances[d] # <<>> =>
              /\ StoredState(d) # <<>>
              /\ (lastRefresh[d] # <<>> /\ lastRefresh[d][1].state = <<>>) =>
                    ~StoredState(d)[1].is_online
    /\ lastCommand.result # "TypeError"

\* C27: over any sequence of passes registerPlatformAccessories is called
\* at most once for each device id.
RegisteredAtMostOnce == \A d \in Ids : hostRegistered[d] <= 1

-----------------------------------------------------------------------------
(* Properties of the updates *)

\* Active and RotationSpeed as HomeKit shows them for a state: Active from
\* power, RotationSpeed in steps of 20 per speed, 100 for speed 5 and above.
Shown(state) ==
    [Active |-> IF state.power THEN "ACTIVE" ELSE "INACTIVE",
     RotationSpeed |->
        IF state.last_recorded_speed >= 5 THEN 100
        ELSE state.last_recorded_speed * 20]

\* a refreshDeviceStatus call has been made on the handler of d in this step
Refreshed(d) == lastRefresh'[d] # lastRefresh[d]

\* C28: last write wins: an online state routed from a broadcast to the
\* handler a pass built is applied whatever state the handler was built
\* from; every online state applied to a handler, by a pass or by routing,
\* sets the shown Active and RotationSpeed to those of its power and speed
\* (speeds of 5 and above are all shown as 100), and they stay so until the
\* next state is applied.
LastWriteWins ==
    [][\A d \in Ids :
          /\ (/\ DatagramHandled
              /\ stateChange' # <<>>
              /\ stateChange'[1].device_id = d
              /\ accessoryInstances[d] # <<>>) =>
                 service'[d] = Shown(stateChange'[1])
          /\ (/\ Refreshed(d)
              /\ lastRefresh'[d][1].state # <<>>
              /\ lastRefresh'[d][1].state[1].is_online) =>
                 service'[d] = Shown(lastRefresh'[d][1].state[1])
          /\ (~Refreshed(d) /\ lastRefresh[d] # <<>>) =>
                 service'[d] = service[d]]_vars

BroadcastAppliedAfterOfflinePoll ==
    /\ accessoryInstances["A"] # <<>>
    /\ StoredState("A") = <<FetchedState("A", FALSE, TRUE, 3)>>
    /\ stateChange # <<>>
    /\ stateChange[1].device_id = "A"
    /\ lastRefresh["A"] # <<>>
    /\ lastRefresh["A"][1].state = stateChange
    /\ lastRefresh["A"][1].before = DefaultService
    /\ service["A"] = [Active |-> "ACTIVE", RotationSpeed |-> 100]

-----------------------------------------------------------------------------
(* Properties of the start-up *)

\* C29: with apiKey or refreshToken missing from the configuration no login
\* request is ever issued, no timer is ever scheduled and no discovery pass
\* is ever started, whatever else is invoked.
IncompleteConfigStartsNothing ==
    ~ConfigComplete =>
        /\ LoginsTotal = 0
        /\ lastLogin = "none"
        /\ api = NewApi
        /\ ApiRequestsInFlight = 0
        /\ ~startupDiscovery
        /\ discovery.passes = 0
        /\ launch \in {"idle", "aborted"}

AbortedWithoutRefreshToken ==
    /\ config = [apiKey |-> TRUE, refreshToken |-> FALSE]
    /\ launch = "aborted"
    /\ lastApi.cause = "unauthenticated"
    /\ api = NewApi
    /\ LoginsTotal = 0

\* login() has been called at least once
LoginInitiated == launch \in {"loggingIn", "done"}

\* C30: once login() has been called for the first time, in every state a
\* login request is in flight, a retry timer is pending or a refresh timer
\* is active; in particular whenever the credential is empty.
AlwaysALoginPending ==
    LoginInitiated =>
        \/ LoginsTotal > 0
        \/ api.loginRetryTimeouts > 0
        \/ ActiveRefreshTimers(api) > 0

OnlyARetryTimerPending ==
    /\ LoginInitiated
    /\ getAccessToken = EmptyToken
    /\ lastLogin = "logical"
    /\ LoginsTotal = 0
    /\ ActiveRefreshTimers(api) = 0
    /\ api.loginRetryTimeouts = 1

-----------------------------------------------------------------------------
(* Properties of commands after updates *)

\* the state refreshDeviceStatus was last called with on the handler of d
\* is the one the last broadcast carried
BroadcastRouted(d) ==
    /\ lastRefresh[d] # <<>>
    /\ stateChange # <<>>
    /\ stateChange[1].is_online
    /\ lastRefresh[d][1].state = stateChange

\* C31: once an online broadcast state has been routed to the handler of
\* device d, a SET request for d is not rejected with the communication
\* failure of an offline device, whatever state the pass built the handler
\* from.
OnlineBroadcastEnablesCommands ==
    [][\A d \in Ids :
          (CommandHandled(d) /\ BroadcastRouted(d)) =>
              lastCommand'.result # "SERVICE_COMMUNICATION_FAILURE"]_vars

-----------------------------------------------------------------------------
(* Properties of discovery after start-up *)

\* C32: when the start-up login has failed and a later login has stored a
\* credential, discoverDevices is eventually called.
DiscoveryAfterRetryLogin ==
    (startupResult = "failure" /\ getAccessToken # EmptyToken)
        ~> (startupDiscovery \/ discovery.passes > 0)

-----------------------------------------------------------------------------
(* Properties of failed passes *)

\* A pass has ended in this step.
PassEnds == discovery' # discovery /\ discovery'.pc = "idle"

\* C33: a pass that ends because its device fetch or its state fetch
\* failed (a fetch answered 401 among them, which is seen by the retry
\* timer it schedules) registers, updates and unregisters nothing and
\* leaves accessoryInstances, the services and the cache as they were.
FailedFetchChangesNothing ==
    [][PassEnds =>
          /\ api'.loginRetryTimeouts > api.loginRetryTimeouts =>
                lastPass'.outcome = "failed"
          /\ lastPass'.outcome = "failed" =>
                /\ accessoryInstances' = accessoryInstances
                /\ hostRegistered' = hostRegistered
                /\ hostUnregistered' = hostUnregistered
                /\ accessories' = accessories
                /\ service' = service
                /\ lastRefresh' = lastRefresh]_vars

SecondPassFailedAfterFirst ==
    /\ discovery = [pc |-> "idle", devices |-> {}, passes |-> 2]
    /\ lastPass = PassFailed
    /\ api.loginRetryTimeouts = 1
    /\ accessories = {"C"}
    /\ hostUnregistered = [d \in Ids |-> IF d = "C" THEN 1 ELSE 0]
    /\ hostRegistered = [d \in Ids |-> IF d = "A" THEN 1 ELSE 0]
    /\ accessoryInstances["A"] # <<>>

\* C34: over any sequence of passes unregisterPlatformAccessories is called
\* at most once for a cached accessory whose device is absent from the
\* fetched device list.
UnregisteredAtMostOnce == \A d \in Ids : hostUnregistered[d] <= 1

====
